---------------------------- MODULE Spec2Model ----------------------------
(***************************************************************************)
(* Model of NLEigenJacobiDavidson (NLEigenSolver/src/                      *)
(* NLEigenJacobiDavidson.cpp): the reader of the problem file and the      *)
(* Jacobi-Davidson loop of execute(), one action per step of the code.     *)
(*                                                                         *)
(* Numbers.  A double is modelled as a record [t, v]: a finite value       *)
(* (t = "fin", v an integer) or one of the IEEE-754 special values NaN,    *)
(* +Inf, -Inf.  The arithmetic follows IEEE-754 on the special values      *)
(* (0/0 = NaN, x/0 = Inf, Inf*0 = NaN, NaN absorbs, every comparison with  *)
(* NaN is false, pow(x, 0) = 1 for every x).  Finite values have unit      *)
(* resolution: a finite quotient or square root that is not an integer is  *)
(* rounded toward zero.  The invariant ArithmeticIsExact records that no   *)
(* reachable state ever holds a value for which that rounding matters:     *)
(* every computed value of a run is 0, a value read from the file, or a    *)
(* special value.  The sign of zero is not modelled.                       *)
(***************************************************************************)
EXTENDS Integers, Sequences, FiniteSets, TLC

(***************************************************************************)
(* Bounds of the model                                                     *)
(***************************************************************************)
\* largest number of degrees of freedom announced by a problem file
MaxDim == 2
\* largest number of mass matrices announced by a problem file
MaxMass == 2
\* largest number of eigenvalues requested by a problem file
MaxEig == 3
\* largest number of values missing at the end of a truncated problem file
MaxMissing == 2

(***************************************************************************)
(* Program constants                                                       *)
(***************************************************************************)
\* m_MaxIter(20), set by the constructor
m_MaxIter == 20

(***************************************************************************)
(* Doubles                                                                 *)
(***************************************************************************)
Fin(x) == [t |-> "fin", v |-> x]
NaN == [t |-> "nan", v |-> 0]
PInf == [t |-> "pinf", v |-> 0]
NInf == [t |-> "ninf", v |-> 0]

IsFin(a) == a.t = "fin"
IsNaN(a) == a.t = "nan"

IAbs(x) == IF x < 0 THEN -x ELSE x

Sign(a) ==
    CASE a.t = "pinf" -> 1
      [] a.t = "ninf" -> -1
      [] OTHER -> IF a.v > 0 THEN 1 ELSE IF a.v < 0 THEN -1 ELSE 0

Signed(s) == IF s > 0 THEN PInf ELSE NInf

\* a + b
FAdd(a, b) ==
    IF IsNaN(a) \/ IsNaN(b) THEN NaN
    ELSE IF IsFin(a) /\ IsFin(b) THEN Fin(a.v + b.v)
    ELSE IF IsFin(a) THEN b
    ELSE IF IsFin(b) THEN a
    ELSE IF a.t = b.t THEN a ELSE NaN

\* -a
FNeg(a) ==
    CASE a.t = "fin" -> Fin(-a.v)
      [] a.t = "pinf" -> NInf
      [] a.t = "ninf" -> PInf
      [] OTHER -> NaN

\* a - b
FSub(a, b) == FAdd(a, FNeg(b))

\* a * b
FMul(a, b) ==
    IF IsNaN(a) \/ IsNaN(b) THEN NaN
    ELSE IF IsFin(a) /\ IsFin(b) THEN Fin(a.v * b.v)
    ELSE IF Sign(a) * Sign(b) = 0 THEN NaN
    ELSE Signed(Sign(a) * Sign(b))

\* a / b
FDiv(a, b) ==
    IF IsNaN(a) \/ IsNaN(b) THEN NaN
    ELSE IF ~IsFin(a) /\ ~IsFin(b) THEN NaN
    ELSE IF ~IsFin(b) THEN Fin(0)
    ELSE IF ~IsFin(a) THEN Signed(Sign(a) * (IF b.v < 0 THEN -1 ELSE 1))
    ELSE IF b.v = 0 THEN (IF a.v = 0 THEN NaN ELSE Signed(Sign(a)))
    ELSE Fin(Sign(a) * Sign(b) * (IAbs(a.v) \div IAbs(b.v)))

RECURSIVE ISqrt(_, _)
ISqrt(x, r) == IF (r + 1) * (r + 1) > x THEN r ELSE ISqrt(x, r + 1)

\* sqrt(a)
FSqrt(a) ==
    CASE a.t = "nan" -> NaN
      [] a.t = "ninf" -> NaN
      [] a.t = "pinf" -> PInf
      [] OTHER -> IF a.v < 0 THEN NaN ELSE Fin(ISqrt(a.v, 0))

\* pow(x, k) for an exponent k that is a natural number
RECURSIVE FPow(_, _)
FPow(x, k) == IF k = 0 THEN Fin(1) ELSE FMul(x, FPow(x, k - 1))

\* abs(a), the overload for double
FAbs(a) ==
    CASE a.t = "fin" -> Fin(IAbs(a.v))
      [] a.t = "nan" -> NaN
      [] OTHER -> PInf

\* a < 0
FNegative(a) == a.t = "ninf" \/ (IsFin(a) /\ a.v < 0)

\* a > 1e-12: of the model's values, the positive ones
ExceedsTol(a) == a.t = "pinf" \/ (IsFin(a) /\ a.v >= 1)

\* a < 1e-12: of the model's values, zero and the negative ones
BelowTol(a) == a.t = "ninf" \/ (IsFin(a) /\ a.v <= 0)

(***************************************************************************)
(* Dense linear algebra (Eigen): vectors are functions on 0..n-1, matrices *)
(* functions from the row index to the row.                                *)
(***************************************************************************)
Idx(n) == 0 .. (n - 1)

ZeroVec(n) == [i \in Idx(n) |-> Fin(0)]
ZeroMat(n) == [i \in Idx(n) |-> ZeroVec(n)]
NaNVec(n) == [i \in Idx(n) |-> NaN]

Dim(v) == Cardinality(DOMAIN v)

RECURSIVE SumTo(_, _)
SumTo(f, k) == IF k = 0 THEN Fin(0) ELSE FAdd(SumTo(f, k - 1), f[k - 1])

\* u.transpose() * v
Dot(u, v) == SumTo([k \in DOMAIN u |-> FMul(u[k], v[k])], Dim(u))

\* A * v
MatVec(A, v) == [i \in DOMAIN A |-> Dot(A[i], v)]

\* v.transpose() * A
VecMat(v, A) == [j \in DOMAIN v |-> SumTo([k \in DOMAIN v |-> FMul(v[k], A[k][j])], Dim(v))]

\* s * v
Scale(s, v) == [i \in DOMAIN v |-> FMul(s, v[i])]

\* s * A
ScaleMat(s, A) == [i \in DOMAIN A |-> Scale(s, A[i])]

\* A + B
MatAdd(A, B) == [i \in DOMAIN A |-> [j \in DOMAIN A[i] |-> FAdd(A[i][j], B[i][j])]]

\* A - B
MatSub(A, B) == [i \in DOMAIN A |-> [j \in DOMAIN A[i] |-> FSub(A[i][j], B[i][j])]]

\* u + v
VecAdd(u, v) == [i \in DOMAIN u |-> FAdd(u[i], v[i])]

\* v += -b * (b.transpose() * v)
Deflate(v, b) == [i \in DOMAIN v |-> FAdd(v[i], FMul(FNeg(b[i]), Dot(b, v)))]


\* v deflated against the columns B[0], ..., B[k-1], in that order
RECURSIVE DeflateAll(_, _, _)
DeflateAll(v, B, k) == IF k = 0 THEN v ELSE Deflate(DeflateAll(v, B, k - 1), B[k - 1])

\* v scaled by 1.0 / sqrt(v.transpose() * v)
Normalized(v) == Scale(FDiv(Fin(1), FSqrt(Dot(v, v))), v)

(***************************************************************************)
(* Matrix polynomials of the frequency                                     *)
(***************************************************************************)
\* Kn = K0 + sum_{jj = 1}^{m-1} jj * pow(omega, jj + 1) * MM[jj]
RECURSIVE FreqStiffSum(_, _, _, _)
FreqStiffSum(Kin, MMin, omega, m) ==
    IF m <= 1 THEN Kin
    ELSE MatAdd(FreqStiffSum(Kin, MMin, omega, m - 1),
                ScaleMat(FMul(Fin(m - 1), FPow(omega, m)), MMin[m - 1]))

getFreqDependentStiffMtx(Kin, MMin, omega) ==
    FreqStiffSum(Kin, MMin, omega, Cardinality(DOMAIN MMin))

\* Mn = MM[0] + sum_{jj = 1}^{m-1} (jj + 1) * pow(omega, jj) * MM[jj]
RECURSIVE FreqMassSum(_, _, _)
FreqMassSum(MMin, omega, m) ==
    IF m <= 1 THEN MMin[0]
    ELSE MatAdd(FreqMassSum(MMin, omega, m - 1),
                ScaleMat(FMul(Fin(m), FPow(omega, m - 1)), MMin[m - 1]))

getFreqDependentMassMtx(MMin, omega) ==
    FreqMassSum(MMin, omega, Cardinality(DOMAIN MMin))

\* for kk = 0 .. k-1: Acc += pow(lr, kk) * pow(ls, jj - kk) * MM[jj]
RECURSIVE GenMassInner(_, _, _, _, _, _)
GenMassInner(Acc, MMin, lr, ls, jj, k) ==
    IF k = 0 THEN Acc
    ELSE MatAdd(GenMassInner(Acc, MMin, lr, ls, jj, k - 1),
                ScaleMat(FMul(FPow(lr, k - 1), FPow(ls, jj - (k - 1))), MMin[jj]))

\* for jj = 0 .. m-1: the inner loop over kk = 0 .. jj
RECURSIVE GenMassOuter(_, _, _, _, _)
GenMassOuter(Zero, MMin, lr, ls, m) ==
    IF m = 0 THEN Zero
    ELSE GenMassInner(GenMassOuter(Zero, MMin, lr, ls, m - 1), MMin, lr, ls, m - 1, m)

getGeneralizedFreqDependentMassMtx(MMin, lr, ls) ==
    GenMassOuter(ZeroMat(Dim(MMin[0])), MMin, lr, ls, Cardinality(DOMAIN MMin))

\* Keff = K0 - sum_{jj = 0}^{m-1} pow(omega, jj + 1) * MM[jj]
RECURSIVE EffStiffSum(_, _, _, _)
EffStiffSum(Kin, MMin, omega, m) ==
    IF m = 0 THEN Kin
    ELSE MatSub(EffStiffSum(Kin, MMin, omega, m - 1),
                ScaleMat(FPow(omega, m), MMin[m - 1]))

getEffectiveStiffMtx(Kin, MMin, omega) ==
    EffStiffSum(Kin, MMin, omega, Cardinality(DOMAIN MMin))

\* Keff += (b - Keff * b) * b.transpose()
ProjectOne(K, b) ==
    [r \in DOMAIN K |->
        [c \in DOMAIN K |-> FAdd(K[r][c], FMul(FSub(b[r], MatVec(K, b)[r]), b[c]))]]

\* for ii = 0 .. indexEig-1: Keff += (B_s.col(ii) - Keff * B_s.col(ii)) * B_s.col(ii).transpose()
RECURSIVE projectEffectiveStiffMatrix(_, _, _)
projectEffectiveStiffMatrix(K, B_s, indexEig) ==
    IF indexEig = 0 THEN K
    ELSE ProjectOne(projectEffectiveStiffMatrix(K, B_s, indexEig - 1), B_s[indexEig - 1])


(***************************************************************************)
(* State                                                                   *)
(***************************************************************************)
VARIABLES
    pc,                     \* position in execute()
    file,                   \* the problem file at m_FilePath
    assertFiresOn,          \* the truth value of its condition at which LOG_ASSERT logs
    m_Dimensions, m_NumberOfMassMtx, m_NumberOfEigenValues,
    K0, MM,                 \* stiffness matrix and mass matrices read from the file
    Omega, Phi, B_r,        \* eigenvalues, eigenvector columns, deflation columns
    Keff, Kn, Mn, Mlrls,    \* scratch matrices
    rk, dUk,                \* residual and correction
    conv, PtMP, PtKP, theta,
    iterK, ie, is,
    status, lsError, lsWarned,  \* last call of iterativeLinearSolver: its result,
                                \* linsolver.error(), whether it logged its message
    log,                    \* assertion and error messages logged so far
    outFiles,               \* result files written so far
    exitCode                \* 0 while running or returned, 1 after exit(1)

vars == <<pc, file, assertFiresOn, m_Dimensions, m_NumberOfMassMtx,
          m_NumberOfEigenValues, K0, MM, Omega, Phi, B_r, Keff, Kn, Mn, Mlrls,
          rk, dUk, conv, PtMP, PtKP, theta, iterK, ie, is, status, lsError,
          lsWarned, log, outFiles, exitCode>>

\* a double that has been declared and not assigned yet
Unset == [t |-> "unset", v |-> 0]

(***************************************************************************)
(* Logging.  LOG_ASSERT(x, msg) logs msg and returns; it never stops the   *)
(* run.  The sources use it both with a condition that is true on failure  *)
(* (LOG_ASSERT(fid.fail(), ...)) and with one that is false on failure     *)
(* (LOG_ASSERT(false, ...)), so both readings of the macro are explored:   *)
(* assertFiresOn is the value of x at which the message is logged.         *)
(***************************************************************************)
LOG_ASSERT(x, msg, lg) == IF x = assertFiresOn THEN Append(lg, msg) ELSE lg

LOG_ERROR(msg, lg) == Append(lg, msg)

(***************************************************************************)
(* The problem file                                                        *)
(***************************************************************************)
\* k on the diagonal
ScalarMatrix(n, k) == [i \in Idx(n) |-> [j \in Idx(n) |-> IF i = j THEN k ELSE 0]]

\* 2 on the diagonal, -1 beside it
ChainMatrix(n) ==
    [i \in Idx(n) |-> [j \in Idx(n) |->
        IF i = j THEN 2 ELSE IF i - j = 1 \/ j - i = 1 THEN -1 ELSE 0]]

StiffnessMatrices(n) == {ScalarMatrix(n, 2), ChainMatrix(n)}

MassMatrices(n) == {ScalarMatrix(n, 1), ScalarMatrix(n, -1)}

\* the rows of A, one after the other
RECURSIVE RowsOf(_, _, _)
RowsOf(A, n, k) ==
    IF k = 0 THEN <<>> ELSE Append(RowsOf(A, n, k - 1), A[(k - 1) \div n][(k - 1) % n])

RECURSIVE MassRows(_, _, _)
MassRows(Ms, n, m) ==
    IF m = 0 THEN <<>> ELSE MassRows(Ms, n, m - 1) \o RowsOf(Ms[m - 1], n, n * n)

\* the numbers a well-formed file holds after its "n m p" line
FileValues(K, Ms, n, m) == RowsOf(K, n, n * n) \o MassRows(Ms, n, m)

\* the number of values the "n m p" line of the file announces
Announced(f) == f.n * f.n * (1 + f.m)

Min(a, b) == IF a < b THEN a ELSE b

\* a file that cannot be opened, or one that holds n, m, p and the matrices,
\* possibly cut short
Files ==
    {[opens |-> FALSE, n |-> 0, m |-> 0, p |-> 0, vals |-> <<>>]}
    \cup
    UNION {
      UNION {
        {[opens |-> TRUE, n |-> n, m |-> m, p |-> p,
          vals |-> SubSeq(FileValues(K, Ms, n, m), 1, n * n * (1 + m) - missing)] :
            p \in 0 .. MaxEig, missing \in 0 .. Min(MaxMissing, n * n * (1 + m)),
            K \in StiffnessMatrices(n)}
        : Ms \in [Idx(m) -> MassMatrices(n)]}
      : n \in 1 .. MaxDim, m \in 1 .. MaxMass}

\* fid >> x at position pos of the values: the value there, or, at the end of
\* the file, the extraction fails and x keeps the value old
Extract(f, pos, old) == IF pos < Len(f.vals) THEN Fin(f.vals[pos + 1]) ELSE old

\* K0 after the loop over ii, jj: K0.setZero(), then fid >> K0(ii, jj)
ReadStiffness(f) ==
    [ii \in Idx(f.n) |-> [jj \in Idx(f.n) |-> Extract(f, ii * f.n + jj, Fin(0))]]

\* Mtemp after the loop over ii, jj for mass matrix im: Mtemp is set to zero
\* once and then reused for every mass matrix
RECURSIVE ReadMass(_, _)
ReadMass(f, im) ==
    [ii \in Idx(f.n) |-> [jj \in Idx(f.n) |->
        Extract(f, f.n * f.n * (1 + im) + ii * f.n + jj,
                IF im = 0 THEN Fin(0) ELSE ReadMass(f, im - 1)[ii][jj])]]

(***************************************************************************)
(* The inner linear solve                                                  *)
(***************************************************************************)
AllFinite(v) == \A i \in DOMAIN v : IsFin(v[i])

\* Eigen::ConjugateGradient: compute(A), solve(b), error().  A zero right-hand
\* side is answered with x = 0 and error 0 before any iteration; a NaN in A or
\* b reaches every entry of x and the error estimate.  For any other system
\* the solver returns some vector, with error 0 if it solves the system.
ConjugateGradient(A, b) ==
    IF b = ZeroVec(Dim(b)) THEN {[x |-> ZeroVec(Dim(b)), error |-> Fin(0)]}
    ELSE IF ~AllFinite(b) \/ \E i \in DOMAIN A : ~AllFinite(A[i])
         THEN {[x |-> NaNVec(Dim(b)), error |-> NaN]}
    ELSE {[x |-> x, error |-> IF MatVec(A, x) = b THEN Fin(0) ELSE Fin(1)] :
            x \in [DOMAIN b -> {Fin(-1), Fin(0), Fin(1)}]}

\* the value iterativeLinearSolver returns for linsolver.error() = err
SolverStatus(err) == IF BelowTol(err) THEN FALSE ELSE TRUE

\* the log after iterativeLinearSolver: LOG_ASSERT(status, ...) is reached
\* only in the branch that has set status = false
SolverLog(err, lg) ==
    IF BelowTol(err)
    THEN LOG_ASSERT(FALSE, "The iterative linear solver has reach the max. iterations with error below of the tolerance!", lg)
    ELSE lg


(***************************************************************************)
(* execute()                                                               *)
(***************************************************************************)
\* a variant of InitialConv: conv starts at 0.0
InitialConvZero == Fin(0)

\* conv = 1.0 at the start of every eigenvalue index
InitialConv == Fin(1)

\* a variant of SeedOmega: the assignment reversed, Omega(ie - 1) = Omega(ie)
SeedOmegaReversed(Om, i) == IF i > 0 THEN [Om EXCEPT ![i - 1] = Om[i]] ELSE Om

\* if (ie > 0) Omega(ie) = Omega(ie - 1)
SeedOmega(Om, i) == IF i > 0 THEN [Om EXCEPT ![i] = Om[i - 1]] ELSE Om

\* the column of B_r that receives Mlrls * Phi.col(is)
AssignedColumn(i_e, i_s) == i_e

\* for (int is = 0; is < ie; is++): the body again, or the statement after the loop
BasisLoop(i_s, i_e) == IF i_s < i_e THEN "assign" ELSE "orth"

\* a variant of StepAfter: the projection of Keff placed before the
\* evaluation of Keff and of the residual
StepAfterProjectFirst(step) ==
    CASE step = "orth" -> "project"
      [] step = "project" -> "build"
      [] step = "build" -> "solve"
      [] step = "solve" -> "deflate"
      [] step = "deflate" -> "update"
      [] step = "update" -> "check"

\* the order of the statements of the while body after the loop over is
StepAfter(step) ==
    CASE step = "orth" -> "build"
      [] step = "build" -> "project"
      [] step = "project" -> "solve"
      [] step = "solve" -> "deflate"
      [] step = "deflate" -> "update"
      [] step = "update" -> "check"

\* -A
MatNeg(A) == [i \in DOMAIN A |-> [j \in DOMAIN A[i] |-> FNeg(A[i][j])]]

Init ==
    /\ pc = "start"
    /\ file \in Files
    /\ assertFiresOn \in BOOLEAN
    /\ m_Dimensions = 0
    /\ m_NumberOfMassMtx = 1
    /\ m_NumberOfEigenValues = 0
    /\ K0 = <<>> /\ MM = <<>>
    /\ Omega = <<>> /\ Phi = <<>> /\ B_r = <<>>
    /\ Keff = <<>> /\ Kn = <<>> /\ Mn = <<>> /\ Mlrls = <<>>
    /\ rk = <<>> /\ dUk = <<>>
    /\ conv = Unset /\ PtMP = Unset /\ PtKP = Unset /\ theta = Unset
    /\ iterK = 0 /\ ie = 0 /\ is = 0
    /\ status = FALSE /\ lsError = Unset /\ lsWarned = FALSE
    /\ log = <<>>
    /\ outFiles = {}
    /\ exitCode = 0

\* readFileAndGetStiffMassMatrices: fid.fail() after open
OpenFails ==
    /\ pc = "start"
    /\ ~file.opens
    /\ log' = LOG_ASSERT(TRUE, "ERROR: Error in opening the file!", log)
    /\ exitCode' = 1
    /\ pc' = "exit"
    /\ UNCHANGED <<file, assertFiresOn, m_Dimensions, m_NumberOfMassMtx,
                   m_NumberOfEigenValues, K0, MM, Omega, Phi, B_r, Keff, Kn, Mn,
                   Mlrls, rk, dUk, conv, PtMP, PtKP, theta, iterK, ie, is, status,
                   lsError, lsWarned, outFiles>>

\* readFileAndGetStiffMassMatrices: the file is open
ReadFile ==
    /\ pc = "start"
    /\ file.opens
    /\ m_Dimensions' = file.n
    /\ m_NumberOfMassMtx' = file.m
    /\ m_NumberOfEigenValues' = file.p
    /\ K0' = ReadStiffness(file)
    /\ MM' = [im \in Idx(file.m) |-> ReadMass(file, im)]
    /\ pc' = "init"
    /\ UNCHANGED <<file, assertFiresOn, Omega, Phi, B_r, Keff, Kn, Mn, Mlrls, rk,
                   dUk, conv, PtMP, PtKP, theta, iterK, ie, is, status, lsError,
                   lsWarned, log, outFiles, exitCode>>

\* the matrices of execute(), set to zero; ie = 0
Initialize ==
    /\ pc = "init"
    /\ Omega' = [i \in Idx(m_NumberOfEigenValues) |-> Fin(0)]
    /\ Phi' = [i \in Idx(m_NumberOfEigenValues) |-> ZeroVec(m_Dimensions)]
    /\ B_r' = [i \in Idx(m_NumberOfEigenValues) |-> ZeroVec(m_Dimensions)]
    /\ Keff' = ZeroMat(m_Dimensions)
    /\ Kn' = ZeroMat(m_Dimensions)
    /\ Mn' = ZeroMat(m_Dimensions)
    /\ Mlrls' = ZeroMat(m_Dimensions)
    /\ ie' = 0
    /\ pc' = "for"
    /\ UNCHANGED <<file, assertFiresOn, m_Dimensions, m_NumberOfMassMtx,
                   m_NumberOfEigenValues, K0, MM, rk, dUk, conv, PtMP, PtKP, theta,
                   iterK, is, status, lsError, lsWarned, log, outFiles, exitCode>>

\* for (ie < m_NumberOfEigenValues): conv, iterK and the seed of Omega(ie)
EigenvalueLoopEnter ==
    /\ pc = "for"
    /\ ie < m_NumberOfEigenValues
    /\ conv' = InitialConv
    /\ iterK' = 0
    /\ Omega' = SeedOmega(Omega, ie)
    /\ pc' = "while"
    /\ UNCHANGED <<file, assertFiresOn, m_Dimensions, m_NumberOfMassMtx,
                   m_NumberOfEigenValues, K0, MM, Phi, B_r, Keff, Kn, Mn, Mlrls,
                   rk, dUk, PtMP, PtKP, theta, ie, is, status, lsError, lsWarned,
                   log, outFiles, exitCode>>

\* the for loop ends and execute() returns
ExecuteReturns ==
    /\ pc = "for"
    /\ ~(ie < m_NumberOfEigenValues)
    /\ pc' = "done"
    /\ UNCHANGED <<file, assertFiresOn, m_Dimensions, m_NumberOfMassMtx,
                   m_NumberOfEigenValues, K0, MM, Omega, Phi, B_r, Keff, Kn, Mn,
                   Mlrls, rk, dUk, conv, PtMP, PtKP, theta, iterK, ie, is, status,
                   lsError, lsWarned, log, outFiles, exitCode>>

\* while (abs(conv) > m_TOL): the body is entered
WhileEnter ==
    /\ pc = "while"
    /\ ExceedsTol(FAbs(conv))
    /\ is' = 0
    /\ pc' = BasisLoop(0, ie)
    /\ UNCHANGED <<file, assertFiresOn, m_Dimensions, m_NumberOfMassMtx,
                   m_NumberOfEigenValues, K0, MM, Omega, Phi, B_r, Keff, Kn, Mn,
                   Mlrls, rk, dUk, conv, PtMP, PtKP, theta, iterK, ie, status,
                   lsError, lsWarned, log, outFiles, exitCode>>

\* while (abs(conv) > m_TOL): the loop ends, ie++
WhileExit ==
    /\ pc = "while"
    /\ ~ExceedsTol(FAbs(conv))
    /\ ie' = ie + 1
    /\ pc' = "for"
    /\ UNCHANGED <<file, assertFiresOn, m_Dimensions, m_NumberOfMassMtx,
                   m_NumberOfEigenValues, K0, MM, Omega, Phi, B_r, Keff, Kn, Mn,
                   Mlrls, rk, dUk, conv, PtMP, PtKP, theta, iterK, is, status,
                   lsError, lsWarned, log, outFiles, exitCode>>

\* getGeneralizedFreqDependentMassMtx(MM, Mlrls, Omega(ie), Omega(is));
\* B_r.col(ie) = Mlrls * Phi.col(is)
BasisAssign ==
    /\ pc = "assign"
    /\ Mlrls' = getGeneralizedFreqDependentMassMtx(MM, Omega[ie], Omega[is])
    /\ B_r' = [B_r EXCEPT ![AssignedColumn(ie, is)] = MatVec(Mlrls', Phi[is])]
    /\ pc' = "gs"
    /\ UNCHANGED <<file, assertFiresOn, m_Dimensions, m_NumberOfMassMtx,
                   m_NumberOfEigenValues, K0, MM, Omega, Phi, Keff, Kn, Mn, rk,
                   dUk, conv, PtMP, PtKP, theta, iterK, ie, is, status, lsError,
                   lsWarned, log, outFiles, exitCode>>

\* for (el < is): B_r.col(is) += -B_r.col(el) * (B_r.col(el).transpose() * B_r.col(is))
BasisGramSchmidt ==
    /\ pc = "gs"
    /\ B_r' = [B_r EXCEPT ![is] = DeflateAll(B_r[is], B_r, is)]
    /\ pc' = "normalize"
    /\ UNCHANGED <<file, assertFiresOn, m_Dimensions, m_NumberOfMassMtx,
                   m_NumberOfEigenValues, K0, MM, Omega, Phi, Keff, Kn, Mn, Mlrls,
                   rk, dUk, conv, PtMP, PtKP, theta, iterK, ie, is, status, lsError,
                   lsWarned, log, outFiles, exitCode>>

\* B_r.col(is) = 1.0 / sqrt(B_r.col(is).transpose() * B_r.col(is)) * B_r.col(is); is++
BasisNormalize ==
    /\ pc = "normalize"
    /\ B_r' = [B_r EXCEPT ![is] = Normalized(B_r[is])]
    /\ is' = is + 1
    /\ pc' = BasisLoop(is + 1, ie)
    /\ UNCHANGED <<file, assertFiresOn, m_Dimensions, m_NumberOfMassMtx,
                   m_NumberOfEigenValues, K0, MM, Omega, Phi, Keff, Kn, Mn, Mlrls,
                   rk, dUk, conv, PtMP, PtKP, theta, iterK, ie, status, lsError,
                   lsWarned, log, outFiles, exitCode>>

\* for (is < ie): Phi.col(ie) += -B_r.col(is) * (B_r.col(is).transpose() * Phi.col(ie))
OrthogonalizeEigenvector ==
    /\ pc = "orth"
    /\ Phi' = [Phi EXCEPT ![ie] = DeflateAll(Phi[ie], B_r, ie)]
    /\ pc' = StepAfter("orth")
    /\ UNCHANGED <<file, assertFiresOn, m_Dimensions, m_NumberOfMassMtx,
                   m_NumberOfEigenValues, K0, MM, Omega, B_r, Keff, Kn, Mn, Mlrls,
                   rk, dUk, conv, PtMP, PtKP, theta, iterK, ie, is, status, lsError,
                   lsWarned, log, outFiles, exitCode>>

\* getEffectiveStiffMtx(K0, MM, Keff, Omega(ie)); rk = -Keff * Phi.col(ie)
BuildEffectiveOperator ==
    /\ pc = "build"
    /\ Keff' = getEffectiveStiffMtx(K0, MM, Omega[ie])
    /\ rk' = MatVec(MatNeg(Keff'), Phi[ie])
    /\ pc' = StepAfter("build")
    /\ UNCHANGED <<file, assertFiresOn, m_Dimensions, m_NumberOfMassMtx,
                   m_NumberOfEigenValues, K0, MM, Omega, Phi, B_r, Kn, Mn, Mlrls,
                   dUk, conv, PtMP, PtKP, theta, iterK, ie, is, status, lsError,
                   lsWarned, log, outFiles, exitCode>>

\* projectEffectiveStiffMatrix(Keff, B_r, ie)
Project ==
    /\ pc = "project"
    /\ Keff' = projectEffectiveStiffMatrix(Keff, B_r, ie)
    /\ pc' = StepAfter("project")
    /\ UNCHANGED <<file, assertFiresOn, m_Dimensions, m_NumberOfMassMtx,
                   m_NumberOfEigenValues, K0, MM, Omega, Phi, B_r, Kn, Mn, Mlrls,
                   rk, dUk, conv, PtMP, PtKP, theta, iterK, ie, is, status, lsError,
                   lsWarned, log, outFiles, exitCode>>

\* iterativeLinearSolver(Keff, rk, dUk); the value it returns is dropped
SolveCorrection ==
    /\ pc = "solve"
    /\ \E r \in ConjugateGradient(Keff, rk) :
          /\ dUk' = r.x
          /\ lsError' = r.error
          /\ status' = SolverStatus(r.error)
          /\ log' = SolverLog(r.error, log)
          /\ lsWarned' = (SolverLog(r.error, log) # log)
    /\ pc' = StepAfter("solve")
    /\ UNCHANGED <<file, assertFiresOn, m_Dimensions, m_NumberOfMassMtx,
                   m_NumberOfEigenValues, K0, MM, Omega, Phi, B_r, Keff, Kn, Mn,
                   Mlrls, rk, conv, PtMP, PtKP, theta, iterK, ie, is, outFiles,
                   exitCode>>

\* for (is < ie + 1): dUk += -B_r.col(is) * (B_r.col(is).transpose() * dUk)
DeflateCorrection ==
    /\ pc = "deflate"
    /\ dUk' = DeflateAll(dUk, B_r, ie + 1)
    /\ pc' = StepAfter("deflate")
    /\ UNCHANGED <<file, assertFiresOn, m_Dimensions, m_NumberOfMassMtx,
                   m_NumberOfEigenValues, K0, MM, Omega, Phi, B_r, Keff, Kn, Mn,
                   Mlrls, rk, conv, PtMP, PtKP, theta, iterK, ie, is, status,
                   lsError, lsWarned, log, outFiles, exitCode>>

\* Phi.col(ie) += dUk; the Rayleigh quotient; LOG_ASSERT(PtMP < 0, ...);
\* Phi.col(ie) = (1.0 / sqrt(PtMP)) * Phi.col(ie)
Update ==
    /\ pc = "update"
    /\ Kn' = getFreqDependentStiffMtx(K0, MM, Omega[ie])
    /\ Mn' = getFreqDependentMassMtx(MM, Omega[ie])
    /\ PtMP' = Dot(VecMat(VecAdd(Phi[ie], dUk), Mn'), VecAdd(Phi[ie], dUk))
    /\ PtKP' = Dot(VecMat(VecAdd(Phi[ie], dUk), Kn'), VecAdd(Phi[ie], dUk))
    /\ theta' = FDiv(PtKP', PtMP')
    /\ log' = LOG_ASSERT(FNegative(PtMP'), "Error: Negative mass matrix!!!", log)
    /\ Phi' = [Phi EXCEPT ![ie] = Scale(FDiv(Fin(1), FSqrt(PtMP')), VecAdd(Phi[ie], dUk))]
    /\ pc' = StepAfter("update")
    /\ UNCHANGED <<file, assertFiresOn, m_Dimensions, m_NumberOfMassMtx,
                   m_NumberOfEigenValues, K0, MM, Omega, B_r, Keff, Mlrls, rk, dUk,
                   conv, iterK, ie, is, status, lsError, lsWarned, outFiles,
                   exitCode>>

\* conv = abs(theta - Omega(ie)) / theta; Omega(ie) = theta; iterK++;
\* if (iterK > m_MaxIter) { LOG_ERROR(...); break; }
CheckConvergence ==
    /\ pc = "check"
    /\ conv' = FDiv(FAbs(FSub(theta, Omega[ie])), theta)
    /\ Omega' = [Omega EXCEPT ![ie] = theta]
    /\ iterK' = iterK + 1
    /\ IF iterK + 1 > m_MaxIter
       THEN /\ log' = LOG_ERROR("Error: It has reached the max. number of iterations!!", log)
            /\ ie' = ie + 1
            /\ pc' = "for"
       ELSE /\ log' = log
            /\ ie' = ie
            /\ pc' = "while"
    /\ UNCHANGED <<file, assertFiresOn, m_Dimensions, m_NumberOfMassMtx,
                   m_NumberOfEigenValues, K0, MM, Phi, B_r, Keff, Kn, Mn, Mlrls, rk,
                   dUk, PtMP, PtKP, theta, is, status, lsError, lsWarned, outFiles,
                   exitCode>>

Next ==
    \/ OpenFails
    \/ ReadFile
    \/ Initialize
    \/ EigenvalueLoopEnter
    \/ ExecuteReturns
    \/ WhileEnter
    \/ WhileExit
    \/ BasisAssign
    \/ BasisGramSchmidt
    \/ BasisNormalize
    \/ OrthogonalizeEigenvector
    \/ BuildEffectiveOperator
    \/ Project
    \/ SolveCorrection
    \/ DeflateCorrection
    \/ Update
    \/ CheckConvergence

Spec == Init /\ [][Next]_vars

(***************************************************************************)
(* Properties                                                              *)
(***************************************************************************)
\* the positions inside the body of the while loop
BodySteps == {"assign", "gs", "normalize", "orth", "build", "project", "solve",
              "deflate", "update", "check"}

\* Every scalar and every vector entry a run computes is 0 or NaN, and the
\* quadratic forms are 0 or NaN: no quotient or root of the run is rounded,
\* and PtMP is never negative.
ArithmeticIsExact ==
    /\ \A i \in DOMAIN Omega : Omega[i] \in {Fin(0), NaN}
    /\ \A i \in DOMAIN Phi : \A k \in DOMAIN Phi[i] : Phi[i][k] \in {Fin(0), NaN}
    /\ \A i \in DOMAIN B_r : \A k \in DOMAIN B_r[i] : B_r[i][k] \in {Fin(0), NaN}
    /\ \A k \in DOMAIN rk : rk[k] \in {Fin(0), NaN}
    /\ \A k \in DOMAIN dUk : dUk[k] \in {Fin(0), NaN}
    /\ PtMP \in {Unset, Fin(0), NaN}
    /\ PtKP \in {Unset, Fin(0), NaN}
    /\ theta \in {Unset, NaN}
    /\ conv \in {Unset, Fin(1), NaN}
    /\ ~FNegative(PtMP)

\* the file of the scenario n = 2, m = 1, p = 1, K0 = [[2,0],[0,2]], M[0] = identity
ScenarioFile ==
    [opens |-> TRUE, n |-> 2, m |-> 1, p |-> 1,
     vals |-> FileValues(ScalarMatrix(2, 2), [im \in Idx(1) |-> ScalarMatrix(2, 1)], 2, 1)]

\* C1: when execute() has read the file and finished the loop over all p
\* indices, Phi.dat and Omega.dat have been written, and they are written
\* only after the full loop has completed.
C1_ResultsWritten ==
    /\ pc = "done" => outFiles = {"Phi.dat", "Omega.dat"}
    /\ outFiles # {} => (pc = "done" /\ ie = m_NumberOfEigenValues)

\* C2: for n = 2, m = 1, p = 1, K0 = [[2,0],[0,2]], M[0] = identity, execute()
\* ends with Omega[0] = 2 and Phi[0] a unit eigenvector, reached from
\* Phi = 0, Omega[0] = 0 through a well-defined Rayleigh quotient PtKP/PtMP.
C2_ScenarioEigenpair ==
    (file = ScenarioFile /\ pc = "done") =>
        /\ Omega[0] = Fin(2)
        /\ AllFinite(Phi[0])
        /\ Dot(Phi[0], Phi[0]) = Fin(1)
        /\ IsFin(PtMP) /\ PtMP # Fin(0) /\ IsFin(PtKP)

\* C3: a file that holds fewer values than its "n m p" line announces is a
\* fatal input error: the run never gets past reading it.
C3_TruncatedFileIsFatal ==
    (file.opens /\ Len(file.vals) < Announced(file)) => pc \in {"start", "exit"}

\* C6: every accepted eigenvector is normalized with respect to the mass
\* matrix at its stored eigenvalue:
\* Phi[i]^T * freqDependentMass(M, Omega[i]) * Phi[i] = 1.
C6_Normalized ==
    \A i \in Idx(ie) :
        Dot(VecMat(Phi[i], getFreqDependentMassMtx(MM, Omega[i])), Phi[i]) = Fin(1)

\* C7: in every inner iteration the basis step assigns
\* generalizedMass(M, Omega[i], Omega[s]) * Phi[s] to B_r[s] for s = 0..i-1 in
\* turn, before its Gram-Schmidt pass, and leaves every B_r[s], s < i, with
\* unit norm.
C7_BasisRebuilt ==
    /\ pc = "gs" =>
          B_r[is] = MatVec(getGeneralizedFreqDependentMassMtx(MM, Omega[ie], Omega[is]),
                           Phi[is])
    /\ pc = "orth" => \A s \in Idx(ie) : Dot(B_r[s], B_r[s]) = Fin(1)

\* C10: iterativeLinearSolver returns true exactly when the error estimate
\* is not below 1e-12, and logs its warning exactly in the calls that return
\* true.
C10_WarningIffNotConverged ==
    pc = "deflate" =>
        /\ status = ~BelowTol(lsError)
        /\ lsWarned <=> status


\* the run has ended: execute() has returned or the process has exited
Ended == pc \in {"done", "exit"}

C5_Counts ==
    /\ iterK \in 0 .. (m_MaxIter + 1)
    /\ pc \in BodySteps => iterK <= m_MaxIter
    /\ (pc = "for" /\ ie > 0) => iterK >= 1
    /\ pc = "done" => (ie = m_NumberOfEigenValues /\ exitCode = 0)
    /\ pc = "exit" => ~file.opens
    /\ Ended \/ pc \in {"start", "init", "for", "while"} \cup BodySteps
    /\ pc = "solve" => ConjugateGradient(Keff, rk) # {}

\* an upper bound on the steps of one pass of the while loop, its test included
PassCost == 3 * m_NumberOfEigenValues + 8

\* an upper bound on the steps spent on one eigenvalue index
IndexCost == (m_MaxIter + 1) * PassCost + 2

\* the steps left in the current pass of the body
PassLeft ==
    CASE pc = "assign" -> 3 * (ie - is) + 7
      [] pc = "gs" -> 3 * (ie - is) + 6
      [] pc = "normalize" -> 3 * (ie - is) + 5
      [] pc = "orth" -> 7
      [] pc = "build" -> 6
      [] pc = "project" -> 5
      [] pc = "solve" -> 4
      [] pc = "deflate" -> 3
      [] pc = "update" -> 2
      [] pc = "check" -> 1

\* an upper bound on the steps execute() can still take, given that an index
\* is given up after m_MaxIter + 1 passes
StepsLeft ==
    CASE pc = "start" -> file.p * ((m_MaxIter + 1) * (3 * file.p + 8) + 2) + 3
      [] pc = "init" -> m_NumberOfEigenValues * IndexCost + 2
      [] pc = "for" -> (m_NumberOfEigenValues - ie) * IndexCost + 1
      [] pc = "while" ->
            (m_NumberOfEigenValues - ie - 1) * IndexCost + 1
            + (m_MaxIter + 1 - iterK) * PassCost + 1
      [] pc \in BodySteps ->
            (m_NumberOfEigenValues - ie - 1) * IndexCost + 1
            + (m_MaxIter - iterK) * PassCost + PassLeft + 1
      [] OTHER -> 0

C5_Steps ==
    /\ (pc = "while" /\ pc' \in BodySteps) => (ExceedsTol(FAbs(conv)) /\ iterK <= m_MaxIter)
    /\ (pc \in {"while", "check"} /\ pc' \notin BodySteps \cup {"while"}) =>
          (pc' = "for" /\ ie' = ie + 1 /\ exitCode' = 0)
    /\ pc \in BodySteps \cup {"while"} =>
          (pc' \in BodySteps \cup {"while", "for"} /\ ie' \in {ie, ie + 1})
    /\ pc = "check" => iterK' = iterK + 1
    /\ pc \in BodySteps \ {"check"} => iterK' = iterK
    /\ StepsLeft' < StepsLeft
    /\ StepsLeft' >= 0

\* C5: for every eigenvalue index the body of the inner loop runs at least
\* once and at most m_MaxIter + 1 times; it is repeated only while
\* |conv| > TOL and iterK <= m_MaxIter; however the loop stops, the solver
\* goes on to the next index without exiting; execute() terminates: until
\* it has ended it is at a statement that can be executed, and every step
\* lowers a bound on the steps left that allows m_MaxIter + 1 passes for
\* each of the p indices.
C5_IterationBudget == [] C5_Counts /\ [][C5_Steps]_vars

\* C5: witness: execute() has returned after three indices, the last one
\* left after one pass of the body
C5_Witness ==
    /\ pc = "done"
    /\ m_NumberOfEigenValues >= 3
    /\ ie = m_NumberOfEigenValues
    /\ iterK = 1

C8_Order ==
    /\ pc' = "orth" => pc \in {"while", "normalize"} /\ is' = ie
    /\ pc' = "build" =>
          /\ pc = "orth"
          /\ is = ie
          /\ Phi'[ie] = DeflateAll(Phi[ie], B_r, ie)
    /\ pc' = "project" =>
          /\ pc = "build"
          /\ Keff' = getEffectiveStiffMtx(K0, MM, Omega[ie])
          /\ rk' = MatVec(MatNeg(Keff'), Phi[ie])
          /\ B_r' = B_r
    /\ pc' = "solve" =>
          /\ pc = "project"
          /\ Keff = getEffectiveStiffMtx(K0, MM, Omega[ie])
          /\ Keff' = projectEffectiveStiffMatrix(Keff, B_r, ie)
          /\ rk' = rk /\ B_r' = B_r
    /\ pc' = "deflate" =>
          /\ pc = "solve"
          /\ Keff = projectEffectiveStiffMatrix(getEffectiveStiffMtx(K0, MM, Omega[ie]), B_r, ie)
          /\ [x |-> dUk', error |-> lsError'] \in ConjugateGradient(Keff, rk)
          /\ Keff' = Keff /\ Phi' = Phi /\ Omega' = Omega
    /\ pc' = "update" => pc = "deflate" /\ Phi' = Phi /\ Omega' = Omega
    /\ pc' = "check" => pc = "update" /\ Omega' = Omega /\ Keff' = Keff
    /\ pc = "check" => Omega'[ie] = theta /\ Phi' = Phi /\ Keff' = Keff

\* C8: within an inner iteration the deflation columns are completed and
\* Phi[i] orthogonalized first, then Keff is evaluated at Omega[i] and the
\* residual formed from the unprojected Keff, then Keff is projected, then
\* the correction is solved with the projected Keff and that residual, then
\* Phi[i] and Omega[i] are updated.
C8_StepOrder == [][C8_Order]_vars

\* C8: witness: the third index, with two deflation columns, has been
\* projected and solved
C8_Witness ==
    /\ pc = "update"
    /\ ie = 2
    /\ is = 2
    /\ Keff = projectEffectiveStiffMatrix(getEffectiveStiffMtx(K0, MM, Omega[ie]), B_r, ie)

C9_Frame ==
    pc \in BodySteps \cup {"for", "while"} =>
        /\ DOMAIN Omega' = DOMAIN Omega
        /\ DOMAIN Phi' = DOMAIN Phi
        /\ \A s \in DOMAIN Omega : s # ie => (Omega'[s] = Omega[s] /\ Phi'[s] = Phi[s])

\* C9: while the solver processes index i, it changes no Omega[s] or Phi[s]
\* other than Omega[i] and Phi[i].
C9_AcceptedPairsFinal == [][C9_Frame]_vars

\* C9: witness: index 0 is accepted, index 1 has been seeded, corrected and
\* updated, index 2 is still untouched
C9_Witness ==
    /\ pc = "while"
    /\ ie = 1
    /\ iterK = 1
    /\ m_NumberOfEigenValues >= 3
    /\ Omega[0] = NaN /\ Omega[1] = NaN /\ Omega[2] = Fin(0)
    /\ Phi[1] = NaNVec(m_Dimensions) /\ Phi[2] = ZeroVec(m_Dimensions)

=============================================================================
